---- MODULE Spec2Model ----
(***************************************************************************)
(* Model of python_examples/mc_npt_hs.py: Monte Carlo, constant-NPT        *)
(* ensemble, hard spheres.                                                 *)
(*                                                                         *)
(* Numbers.  The program computes in floating point; the model computes    *)
(* exactly on a lattice.                                                   *)
(*   - A position component in box units is k/Grid, stored as the integer  *)
(*     k.  The wrap, the trial displacement and the minimum image are      *)
(*     componentwise in the code; the model follows one component of each  *)
(*     position.                                                           *)
(*   - box is a power of two (in units of sigma), so that                  *)
(*     box_scale = exp(zeta*db_max) is exact: db_max is ZetaSteps*ln(2)    *)
(*     and the uniform source returns u/(2*ZetaSteps), u in                *)
(*     0..2*ZetaSteps-1, hence zeta*db_max = (u-ZetaSteps)*ln(2).          *)
(*   - A real number a + b*ln(2) is the record [pv |-> a, lg |-> b].       *)
(*   - A ratio a/b is the record [num |-> a, den |-> b].                   *)
(* Variables that the code does not read again before it overwrites them   *)
(* hold no value from the point where they die: a variable is << >> when   *)
(* it holds no value and <<x>> when it holds x.  The records tm, vm and    *)
(* sweep are history variables: they hold what an attempt read and         *)
(* decided; added is the argument of the last blk_add call, and steps      *)
(* counts the completed steps.                                             *)
(*                                                                         *)
(* Input and output.  The JSON document on standard input is a record:     *)
(* whether it parses, whether it is an object, and its entries in document *)
(* order, each a key with the Python type and the value json.load gives    *)
(* it.  Only nblock, nstep and fast take their value from the document;    *)
(* the float parameters have values outside the lattice, so the model      *)
(* reads their type from the document and draws their value from DrMaxes   *)
(* and Pressures, and db_max is ZetaSteps*ln(2).  A file name or tag is    *)
(* the sequence of its characters.  log is the sequence of the calls made  *)
(* to the statistics module and to the configuration writer, steplog the   *)
(* sequence of the operations of the current step, snap the arguments of   *)
(* the last write_cnf_atoms call, status the exit status of the process.   *)
(***************************************************************************)
EXTENDS Integers, Sequences, FiniteSets, TLC

MaxN == 2
Half == 2
MaxBoxLog == 3
MaxCount == 2
ZetaSteps == 2
MaxTagBlock == 1002

DefaultNblock == 10
DefaultNstep == 1000
TagLimit == 1000
TagWidth == 3

Grid == 2 * Half
None == "None"

RECURSIVE Pow(_, _)
Pow(b, e) == IF e <= 0 THEN 1 ELSE b * Pow(b, e - 1)

Counts == {-1, 0, 1, MaxCount}
Boxes == {Pow(2, k) : k \in 0 .. MaxBoxLog}
Pressures == {4}
DrMaxes == {2 * Grid}
RawFrac == -Grid .. Grid

VARIABLES pc, abort, nblock, nstep, dr_max, pressure, n, box, r,
          blk, stp, i, moves, ri, m_ratio, v_ratio, zeta, box_new,
          variables, added, tm, vm, sweep, steps,
          nml, status, oracle, sav_tag, log, steplog, snap

vars == <<pc, abort, nblock, nstep, dr_max, pressure, n, box, r,
          blk, stp, i, moves, ri, m_ratio, v_ratio, zeta, box_new,
          variables, added, tm, vm, sweep, steps,
          nml, status, oracle, sav_tag, log, steplog, snap>>

params == <<nblock, nstep, dr_max, pressure>>
config == <<n, box, r>>
setup == <<nml, oracle>>
output == <<sav_tag, log, snap>>

(* np.rint of the rational num/den (den > 0): nearest integer, a tie goes  *)
(* to the even neighbour.                                                  *)
RintHalfUp(num, den) == (2 * num + den) \div (2 * den)

Rint(num, den) ==
    LET q == num \div den
        rem == num % den
    IN  IF 2 * rem < den THEN q
        ELSE IF 2 * rem > den THEN q + 1
        ELSE IF q % 2 = 0 THEN q ELSE q + 1

(* x - np.rint(x) on a lattice component x/Grid.                           *)
WrapTruncate(x) == IF x >= 0 THEN x % Grid ELSE -((-x) % Grid)

PeriodicWrap(x) == x - Grid * Rint(x, Grid)

(* np.delete(r, i, 0): the rows of r without row i, renumbered from 0.      *)
DeleteWrongRow(a, k) ==
    [j \in 0 .. (Cardinality(DOMAIN a) - 2) |-> IF j < k THEN a[j + 1] ELSE a[j]]

Delete(a, k) ==
    [j \in 0 .. (Cardinality(DOMAIN a) - 2) |-> IF j < k THEN a[j] ELSE a[j + 1]]

(* overlap_1(ri, box, r): some row of r is closer to ri than one diameter   *)
(* in the minimum image.                                                   *)
overlap_1(p, b, others) ==
    \E j \in DOMAIN others :
        LET rij == PeriodicWrap(p - others[j])
        IN  rij * rij * b * b < Grid * Grid

(* overlap(box, r): some pair of rows overlaps.                            *)
overlap(b, a) ==
    \E j \in DOMAIN a :
        overlap_1(a[j], b, [k \in {m \in DOMAIN a : m > j} |-> a[k]])

(* random_translate_vector(dr_max/box, r[i,:]): the lattice points within  *)
(* dr_max/box of the old position.                                         *)
random_translate_vector(dr, b, old) ==
    {old + c : c \in -(dr \div b) .. (dr \div b)}

(* The sign of pv + lg*ln(2), with ln(2) = 0.6931...: exact for            *)
(* |pv| <= 200000 and |lg| <= 60, which covers the model's range.          *)
DeltaPositive(delta) == delta.pv * 10000 + delta.lg * 6931 > 0

(* metropolis(delta): the outcomes the random draw allows; delta <= 0 is   *)
(* always accepted.                                                        *)

metropolis(delta) == IF DeltaPositive(delta) THEN {TRUE, FALSE} ELSE {TRUE}

(* calculate(string): [m_r, v_r, density] from the globals of the caller.  *)
CalculateSquare(string, nn, bb, mr, vr) ==
    [m_r |-> IF string = None THEN mr ELSE [num |-> 0, den |-> 1],
     v_r |-> IF string = None THEN vr ELSE 0,
     density |-> [num |-> nn, den |-> bb * bb]]

calculate(string, nn, bb, mr, vr) ==
    LET vol == bb * bb * bb
        rho == [num |-> nn, den |-> vol]
    IN  [m_r |-> IF string = None THEN mr ELSE [num |-> 0, den |-> 1],
         v_r |-> IF string = None THEN vr ELSE 0,
         density |-> rho]

(* Lines 150-154.  zeta = 2*u/(2*ZetaSteps) - 1 is kept as its numerator    *)
(* u - ZetaSteps over ZetaSteps; box_scale and den_scale are kept as       *)
(* their base-2 logarithms.                                                *)
DbMaxLog == ZetaSteps
Uniform == 0 .. (2 * ZetaSteps - 1)
Zeta(u) == u - ZetaSteps
BoxScaleLog(z) == (z * DbMaxLog) \div ZetaSteps
DenScaleLog(z) == -3 * BoxScaleLog(z)
Representable(b, e) == e >= 0 \/ b % Pow(2, -e) = 0
BoxNew(b, z) ==
    IF BoxScaleLog(z) >= 0 THEN b * Pow(2, BoxScaleLog(z))
    ELSE b \div Pow(2, -BoxScaleLog(z))

(* Lines 157-158.                                                          *)
DeltaWithN(p, nn, b, bnew, z) ==
    [pv |-> p * (bnew * bnew * bnew - b * b * b), lg |-> nn * DenScaleLog(z)]

Delta(p, nn, b, bnew, z) ==
    [pv |-> p * (bnew * bnew * bnew - b * b * b),
     lg |-> (nn + 1) * DenScaleLog(z)]

(* Line 143: the test that accepts a translation.                          *)
TranslationFeasibleInverted(p, b, a, k) == overlap_1(p, b, Delete(a, k))

TranslationFeasible(p, b, a, k) == ~overlap_1(p, b, Delete(a, k))

(* Line 144: r[i,:] = ri.                                                  *)
UpdateLost(a, k, p) == a

Update(a, k, p) == [a EXCEPT ![k] = p]

(* Line 156: the test that lets a volume proposal reach metropolis.        *)
VolumeFeasibleOldBox(b, bnew, a) == ~overlap(b, a)

VolumeFeasibleAlways(b, bnew, a) == TRUE

VolumeFeasible(b, bnew, a) == ~overlap(bnew, a)

(* Lines 149 and 160-162: box and v_ratio after the Metropolis test.       *)
BoxAfter(ok, b, bnew) == IF ok THEN bnew ELSE b

VRatioAlwaysOne(ok) == 1

VRatioAfter(ok) == IF ok THEN 1 ELSE 0

(* Lines 130 and 134: range(1, nblock+1) and range(nstep) have a next      *)
(* element after b blocks, after s steps.                                  *)
MoreBlocksOffByOne(b, nb) == b <= nb

MoreBlocks(b, nb) == b < nb

MoreStepsOffByOne(s, ns) == s <= ns

MoreSteps(s, ns) == s < ns

(* Line 138: range(n) has a next element after k atoms.                    *)
MoreAtomsSkipLast(k, nn) == k < nn - 1

MoreAtoms(k, nn) == k < nn

(* Lines 71-74: the file name prefix and the tags.                         *)
CnfPrefix == <<"c", "n", "f", ".">>
InpTag == <<"i", "n", "p">>
OutTag == <<"o", "u", "t">>
Sav == <<"s", "a", "v">>

(* str(blk) for blk >= 0, and s.zfill(w) for a string without a sign.      *)
Digit(d) ==
    CASE d = 0 -> "0" [] d = 1 -> "1" [] d = 2 -> "2" [] d = 3 -> "3"
      [] d = 4 -> "4" [] d = 5 -> "5" [] d = 6 -> "6" [] d = 7 -> "7"
      [] d = 8 -> "8" [] d = 9 -> "9"

RECURSIVE Str(_)
Str(b) == IF b < 10 THEN <<Digit(b)>> ELSE Str(b \div 10) \o <<Digit(b % 10)>>

RECURSIVE ZFill(_, _)
ZFill(s, w) == IF Len(s) >= w THEN s ELSE ZFill(<<"0">> \o s, w)

(* Line 168: the tag of the snapshot of block b.                           *)
SavTagNoFill(b) == IF b < TagLimit THEN Str(b) ELSE Sav

SavTag(b) == IF b < TagLimit THEN ZFill(Str(b), TagWidth) ELSE Sav

(* A call the driver makes: the function, its integer argument (the block  *)
(* of blk_end, the atom of a translation attempt, else 0) and the file     *)
(* name of write_cnf_atoms.                                                *)
Event(op, arg, name) == [op |-> op, arg |-> arg, name |-> name]
Call(op) == Event(op, 0, << >>)
WriteCnf(tag) == Event("write_cnf_atoms", 0, CnfPrefix \o tag)

(* Lines 169 and 176: the arguments of write_cnf_atoms, positions r*box.   *)
Snapshot(tag, nn, bb, a) ==
    [name |-> CnfPrefix \o tag, n |-> nn, box |-> bb,
     r |-> [j \in DOMAIN a |-> a[j] * bb]]

(* Lines 124-128: the calls of the initialization, given the result of     *)
(* overlap(box, r).                                                        *)
InitCallsEarly(ovl) ==
    <<Call("run_begin"), Call("overlap")>>
    \o (IF ovl THEN << >> ELSE <<Call("calculate")>>)

InitCalls(ovl) ==
    IF ovl THEN <<Call("overlap")>>
    ELSE <<Call("overlap"), Call("calculate"), Call("run_begin")>>

(* Lines 167-169: the calls that end block b.                              *)
BlockEndCalls(b) == <<Event("blk_end", b, << >>), WriteCnf(SavTag(b))>>

(* Lines 171-177: the calls of the finalization, given the result of       *)
(* overlap(box, r).                                                        *)
RunEndCalls == <<Call("run_end"), Call("calculate")>>

FinalCallsWriteFirst(ovl) ==
    <<WriteCnf(OutTag), Call("overlap")>>
    \o (IF ovl THEN << >> ELSE <<Call("conclusion")>>)

FinalCalls(ovl) ==
    IF ovl THEN <<Call("overlap")>>
    ELSE <<Call("overlap"), WriteCnf(OutTag), Call("conclusion")>>

(* Lines 80-84: json.load(sys.stdin) and the handler of JSONDecodeError.    *)
(* exit: the process exits; status: with what status (sys.exit() without   *)
(* argument is status 0); printed: the message; nml: the value bound.      *)
JsonLoadFallsThrough(doc) ==
    IF doc.kind = "invalid"
    THEN [exit |-> FALSE, status |-> << >>,
          printed |-> "Exiting on Invalid JSON format",
          nml |-> <<[kind |-> "object", items |-> << >>]>>]
    ELSE [exit |-> FALSE, status |-> << >>, printed |-> None, nml |-> <<doc>>]

JsonLoad(doc) ==
    IF doc.kind = "invalid"
    THEN [exit |-> TRUE, status |-> <<0>>,
          printed |-> "Exiting on Invalid JSON format", nml |-> << >>]
    ELSE [exit |-> FALSE, status |-> << >>, printed |-> None, nml |-> <<doc>>]

(* Line 87: the keys of defaults and the Python type of each default.      *)
Recognized == {"nblock", "nstep", "dr_max", "db_max", "pressure", "fast"}
Types == {"int", "float", "bool", "str"}
DefaultType(key) ==
    CASE key \in {"nblock", "nstep"} -> "int"
      [] key \in {"dr_max", "db_max", "pressure"} -> "float"
      [] key = "fast" -> "bool"

(* Line 90: type(val) == type(defaults[key]).                              *)
TypeMatchesIsinstance(e) ==
    \/ e.type = DefaultType(e.key)
    \/ e.type = "bool" /\ DefaultType(e.key) = "int"

TypeMatches(e) == e.type = DefaultType(e.key)

(* Lines 88-92: the loop over nml.items() stops at the first recognized    *)
(* key whose assert fails; the result is the message of the assert, or     *)
(* None when the loop runs to its end.                                     *)
Offending(items) ==
    {k \in 1 .. Len(items) :
        items[k].key \in Recognized /\ ~TypeMatches(items[k])}

TypeCheck(items) ==
    IF Offending(items) = {} THEN None
    ELSE LET k == CHOOSE m \in Offending(items) :
                      \A o \in Offending(items) : m <= o
         IN  items[k].key \o " has the wrong type"

(* Lines 95-100: nml[key] if key in nml else defaults[key].                *)
Supplied(items, key) == \E k \in 1 .. Len(items) : items[k].key = key
Value(items, key, default) ==
    IF Supplied(items, key)
    THEN items[CHOOSE k \in 1 .. Len(items) : items[k].key = key].val
    ELSE default

(* Lines 102-105: the module that overlap and overlap_1 come from.         *)
OracleModule(fast) ==
    IF fast = 1 THEN "mc_hs_fast_module" ELSE "mc_hs_slow_module"

(* The documents on standard input.  A bool has val 1 for true and 0 for   *)
(* false; a float or a string has val 0, its value is not carried.  A      *)
(* document that leaves nblock or nstep to its default sets the other to   *)
(* 0, so that the run has DefaultNblock empty blocks or no block at all.   *)
Entry(key, type, val) == [key |-> key, type |-> type, val |-> val]
Object(items) == [kind |-> "object", items |-> items]

WellTyped ==
    {Object(<<Entry("nblock", "int", nb), Entry("nstep", "int", ns)>>) :
         nb \in Counts, ns \in Counts}
    \cup {Object(<<Entry("nstep", "int", 0)>>),
          Object(<<Entry("nblock", "int", 0)>>),
          Object(<<Entry("title", "str", 0), Entry("fast", "bool", 0),
                   Entry("nstep", "int", 1), Entry("nblock", "int", 1),
                   Entry("dr_max", "float", 0), Entry("db_max", "float", 0),
                   Entry("pressure", "float", 0)>>)}

IllTyped ==
    {Object(<<Entry(kt[1], kt[2], 1)>>) :
         kt \in {x \in Recognized \X Types : x[2] # DefaultType(x[1])}}
    \cup {Object(<<Entry("nblock", "int", 1), Entry("nstep", "bool", 1)>>),
          Object(<<Entry("nblock", "int", 1), Entry("dr_max", "int", 1)>>)}
    \cup {Object(<<Entry("title", "str", 0), Entry("fast", "int", 1)>>),
          Object(<<Entry("nblock", "str", 0), Entry("nstep", "float", 0)>>),
          Object(<<Entry("nstep", "float", 0), Entry("nblock", "str", 0)>>)}

Documents ==
    WellTyped \cup IllTyped
    \cup {[kind |-> "invalid", items |-> << >>],
          [kind |-> "array", items |-> << >>]}

Init ==
    /\ pc = "start"
    /\ abort = None
    /\ nblock = 0 /\ nstep = 0 /\ dr_max = 0 /\ pressure = 0
    /\ n = 0 /\ box = 1 /\ r = << >>
    /\ blk = 0 /\ stp = 0 /\ i = 0 /\ moves = 0
    /\ ri = << >> /\ m_ratio = << >> /\ v_ratio = << >>
    /\ zeta = << >> /\ box_new = << >>
    /\ variables = << >> /\ added = << >> /\ tm = << >> /\ vm = << >>
    /\ sweep = << >>
    /\ steps = 0
    /\ nml = << >> /\ status = << >> /\ oracle = << >>
    /\ sav_tag = Sav /\ log = << >> /\ steplog = << >> /\ snap = << >>

(* Lines 79-84: the parameter document is read from standard input.       *)
LoadJson ==
    /\ pc = "start"
    /\ \E doc \in Documents :
          /\ nml' = JsonLoad(doc).nml
          /\ abort' = JsonLoad(doc).printed
          /\ status' = JsonLoad(doc).status
          /\ pc' = IF JsonLoad(doc).exit THEN "exited" ELSE "typecheck"
    /\ UNCHANGED <<params, config, blk, stp, i, moves, ri, m_ratio, v_ratio,
                   zeta, box_new, variables, added, tm, vm, sweep, steps,
                   oracle, output, steplog>>

(* Lines 86-107: the type check of the supplied keys, the parameters, the  *)
(* overlap oracle.  A document that is not an object has no items(): the   *)
(* AttributeError ends the process.                                        *)
ReadParams ==
    /\ pc = "typecheck"
    /\ IF nml[1].kind # "object"
       THEN /\ abort' = "AttributeError"
            /\ status' = <<1>>
            /\ pc' = "aborted"
            /\ UNCHANGED <<params, oracle>>
       ELSE IF TypeCheck(nml[1].items) # None
       THEN /\ abort' = TypeCheck(nml[1].items)
            /\ status' = <<1>>
            /\ pc' = "aborted"
            /\ UNCHANGED <<params, oracle>>
       ELSE /\ nblock' = Value(nml[1].items, "nblock", DefaultNblock)
            /\ nstep' = Value(nml[1].items, "nstep", DefaultNstep)
            /\ \E dr \in DrMaxes, p \in Pressures :
                  /\ dr_max' = dr
                  /\ pressure' = p
            /\ oracle' = <<OracleModule(Value(nml[1].items, "fast", 1))>>
            /\ pc' = "read_cnf"
            /\ UNCHANGED <<abort, status>>
    /\ UNCHANGED <<config, blk, stp, i, moves, ri, m_ratio, v_ratio,
                   zeta, box_new, variables, added, tm, vm, sweep, steps,
                   nml, output, steplog>>

(* Lines 116-121: read_cnf_atoms, r = r / box, r = r - np.rint(r).  The     *)
(* file holds positions in units of sigma/Grid that are whole multiples   *)
(* of box.                                                                 *)
ReadCnf ==
    /\ pc = "read_cnf"
    /\ \E nn \in 1 .. MaxN, b \in Boxes :
          \E raw \in [0 .. (nn - 1) -> {m * b : m \in RawFrac}] :
              /\ n' = nn
              /\ box' = b
              /\ r' = [j \in 0 .. (nn - 1) |-> PeriodicWrap(raw[j] \div b)]
    /\ pc' = "check_init"
    /\ UNCHANGED <<abort, params, blk, stp, i, moves, ri, m_ratio, v_ratio,
                   zeta, box_new, variables, added, tm, vm, sweep, steps,
                   setup, status, output, steplog>>

(* Lines 123-128: the initial overlap check, calculate, run_begin.         *)
InitCheck ==
    /\ pc = "check_init"
    /\ IF overlap(box, r)
       THEN /\ pc' = "aborted"
            /\ abort' = "Overlap in initial configuration"
            /\ status' = <<1>>
            /\ UNCHANGED variables
       ELSE /\ pc' = "blk_loop"
            /\ variables' =
                   <<calculate("Initial values", n, box, m_ratio, v_ratio)>>
            /\ UNCHANGED <<abort, status>>
    /\ log' = log \o InitCalls(overlap(box, r))
    /\ UNCHANGED <<params, config, blk, stp, i, moves, ri, m_ratio, v_ratio,
                   zeta, box_new, added, tm, vm, sweep, steps,
                   setup, sav_tag, snap, steplog>>

(* Lines 130-132: the next block, blk_begin.  stp counts the steps of the  *)
(* block that have started.                                                *)
BlockBegin ==
    /\ pc = "blk_loop"
    /\ MoreBlocks(blk, nblock)
    /\ blk' = blk + 1
    /\ stp' = 0
    /\ variables' = << >>
    /\ log' = Append(log, Call("blk_begin"))
    /\ snap' = << >>
    /\ pc' = "stp_loop"
    /\ UNCHANGED <<abort, params, config, i, moves, ri, m_ratio, v_ratio,
                   zeta, box_new, added, tm, vm, sweep, steps,
                   setup, status, sav_tag, steplog>>

(* Lines 134-136: the next step of the block, moves = 0.                   *)
StepBegin ==
    /\ pc = "stp_loop"
    /\ MoreSteps(stp, nstep)
    /\ stp' = stp + 1
    /\ moves' = 0
    /\ i' = 0
    /\ sweep' = <<[r0 |-> r, new |-> << >>]>>
    /\ m_ratio' = << >> /\ v_ratio' = << >>
    /\ variables' = << >> /\ added' = << >> /\ vm' = << >>
    /\ steplog' = << >>
    /\ pc' = "atom_loop"
    /\ UNCHANGED <<abort, params, config, blk, ri, zeta, box_new, tm, steps,
                   setup, status, output>>

(* Lines 138-141: the next atom i, its trial position, wrapped.  i is the  *)
(* index of the next atom of the sweep.                                    *)
AtomPropose ==
    /\ pc = "atom_loop"
    /\ MoreAtoms(i, n)
    /\ \E t \in random_translate_vector(dr_max, box, r[i]) :
          ri' = <<PeriodicWrap(t)>>
    /\ tm' = << >>
    /\ pc' = "atom_test"
    /\ UNCHANGED <<abort, params, config, blk, stp, i, moves, m_ratio,
                   v_ratio, zeta, box_new, variables, added, vm, sweep, steps,
                   setup, status, output, steplog>>

(* Lines 143-145: the overlap test of the trial position against the      *)
(* other atoms, the update of r[i] and of the move counter.  tm records    *)
(* the attempt: the atom, the trial position, the array rj that the test   *)
(* read, r and moves before the attempt; sweep.new maps the atoms accepted *)
(* so far in the sweep to their trial positions.                           *)
AtomDecide ==
    /\ pc = "atom_test"
    /\ IF TranslationFeasible(ri[1], box, r, i)
       THEN /\ r' = Update(r, i, ri[1])
            /\ moves' = moves + 1
            /\ sweep' = <<[sweep[1] EXCEPT
                       !.new = [j \in DOMAIN @ \cup {i} |->
                                   IF j = i THEN ri[1] ELSE @[j]]]>>
       ELSE UNCHANGED <<r, moves, sweep>>
    /\ tm' = <<[i |-> i, ri |-> ri[1], before |-> r, moves |-> moves,
                rj |-> Delete(r, i)]>>
    /\ i' = i + 1
    /\ ri' = << >>
    /\ steplog' = Append(steplog, Event("move", i, << >>))
    /\ pc' = "atom_loop"
    /\ UNCHANGED <<abort, params, n, box, blk, stp, m_ratio, v_ratio, zeta,
                   box_new, variables, added, vm, steps,
                   setup, status, output>>

(* Lines 147-154: m_ratio, v_ratio = 0.0, zeta and the proposed box.  The   *)
(* proposals are those whose box is in Boxes.                              *)
VolumePropose ==
    /\ pc = "atom_loop"
    /\ ~MoreAtoms(i, n)
    /\ m_ratio' = <<[num |-> moves, den |-> n]>>
    /\ v_ratio' = <<0>>
    /\ \E u \in Uniform :
          /\ Representable(box, BoxScaleLog(Zeta(u)))
          /\ BoxNew(box, Zeta(u)) \in Boxes
          /\ zeta' = <<Zeta(u)>>
          /\ box_new' = <<BoxNew(box, Zeta(u))>>
    /\ tm' = << >>
    /\ steplog' = Append(steplog, Call("volume_propose"))
    /\ pc' = "vol_test"
    /\ UNCHANGED <<abort, params, config, blk, stp, i, moves, ri, variables,
                   added, vm, sweep, steps, setup, status, output>>

(* Lines 156-162: the overlap gate, delta, metropolis, the update of box   *)
(* and v_ratio.  vm records the decision: the box before it, the proposal, *)
(* whether metropolis was called, with which delta and with what result.   *)
VolumeDecide ==
    /\ pc = "vol_test"
    /\ IF VolumeFeasible(box, box_new[1], r)
       THEN \E ok \in metropolis(Delta(pressure, n, box, box_new[1], zeta[1])) :
               /\ box' = BoxAfter(ok, box, box_new[1])
               /\ v_ratio' = <<VRatioAfter(ok)>>
               /\ vm' = <<[box_old |-> box, box_new |-> box_new[1],
                           zeta |-> zeta[1], called |-> TRUE,
                           delta |-> Delta(pressure, n, box, box_new[1],
                                           zeta[1]),
                           result |-> ok]>>
       ELSE /\ UNCHANGED <<box, v_ratio>>
            /\ vm' = <<[box_old |-> box, box_new |-> box_new[1],
                        zeta |-> zeta[1], called |-> FALSE,
                        delta |-> [pv |-> 0, lg |-> 0],
                        result |-> FALSE]>>
    /\ zeta' = << >>
    /\ box_new' = << >>
    /\ sweep' = << >>
    /\ steplog' = Append(steplog, Call("volume_decide"))
    /\ pc' = "observe"
    /\ UNCHANGED <<abort, params, n, r, blk, stp, i, moves, ri, m_ratio,
                   variables, added, tm, steps, setup, status, output>>

(* Lines 164-165: variables = calculate(), blk_add(variables).             *)
Observe ==
    /\ pc = "observe"
    /\ variables' = <<calculate(None, n, box, m_ratio[1], v_ratio[1])>>
    /\ added' = variables'
    /\ steps' = steps + 1
    /\ steplog' = steplog \o <<Call("calculate"), Call("blk_add")>>
    /\ log' = Append(log, Call("blk_add"))
    /\ pc' = "stp_loop"
    /\ UNCHANGED <<abort, params, config, blk, stp, i, moves, ri, m_ratio,
                   v_ratio, zeta, box_new, tm, vm, sweep,
                   setup, status, sav_tag, snap>>

(* Lines 167-169: blk_end, the snapshot of the block.                      *)
BlockEnd ==
    /\ pc = "stp_loop"
    /\ ~MoreSteps(stp, nstep)
    /\ m_ratio' = << >> /\ v_ratio' = << >>
    /\ variables' = << >> /\ added' = << >> /\ vm' = << >>
    /\ steplog' = << >>
    /\ sav_tag' = SavTag(blk)
    /\ log' = log \o BlockEndCalls(blk)
    /\ snap' = <<Snapshot(SavTag(blk), n, box, r)>>
    /\ pc' = "blk_loop"
    /\ UNCHANGED <<abort, params, config, blk, stp, i, moves, ri, zeta,
                   box_new, tm, sweep, steps, setup, status>>

(* Lines 171-172: run_end, calculate('Final values').                      *)
RunEnd ==
    /\ pc = "blk_loop"
    /\ ~MoreBlocks(blk, nblock)
    /\ variables' = <<calculate("Final values", n, box, m_ratio, v_ratio)>>
    /\ log' = log \o RunEndCalls
    /\ snap' = << >>
    /\ pc' = "final_check"
    /\ UNCHANGED <<abort, params, config, blk, stp, i, moves, ri, m_ratio,
                   v_ratio, zeta, box_new, added, tm, vm, sweep, steps,
                   setup, status, sav_tag, steplog>>

(* Lines 174-177: the final overlap check, the final configuration,        *)
(* conclusion.                                                             *)
FinalCheck ==
    /\ pc = "final_check"
    /\ IF overlap(box, r)
       THEN /\ pc' = "aborted"
            /\ abort' = "Overlap in final configuration"
            /\ status' = <<1>>
            /\ UNCHANGED snap
       ELSE /\ pc' = "done"
            /\ status' = <<0>>
            /\ snap' = <<Snapshot(OutTag, n, box, r)>>
            /\ UNCHANGED abort
    /\ log' = log \o FinalCalls(overlap(box, r))
    /\ UNCHANGED <<params, config, blk, stp, i, moves, ri, m_ratio, v_ratio,
                   zeta, box_new, variables, added, tm, vm, sweep, steps,
                   setup, sav_tag, steplog>>

Next ==
    \/ LoadJson
    \/ ReadParams
    \/ ReadCnf
    \/ InitCheck
    \/ BlockBegin
    \/ StepBegin
    \/ AtomPropose
    \/ AtomDecide
    \/ VolumePropose
    \/ VolumeDecide
    \/ Observe
    \/ BlockEnd
    \/ RunEnd
    \/ FinalCheck

Spec == Init /\ [][Next]_vars

(* The scheduling of a sequential program: it takes its next step.         *)
FairSpec == Spec /\ WF_vars(Next)

(* Line 168 on its own: the tag of the snapshot for every block number up  *)
(* to MaxTagBlock, which the runs of Spec are too short to reach.          *)
TagInit ==
    /\ pc = "tag_in"
    /\ blk \in 1 .. MaxTagBlock
    /\ abort = None
    /\ nblock = 0 /\ nstep = 0 /\ dr_max = 0 /\ pressure = 0
    /\ n = 0 /\ box = 1 /\ r = << >>
    /\ stp = 0 /\ i = 0 /\ moves = 0
    /\ ri = << >> /\ m_ratio = << >> /\ v_ratio = << >>
    /\ zeta = << >> /\ box_new = << >>
    /\ variables = << >> /\ added = << >> /\ tm = << >> /\ vm = << >>
    /\ sweep = << >>
    /\ steps = 0
    /\ nml = << >> /\ status = << >> /\ oracle = << >>
    /\ sav_tag = Sav /\ log = << >> /\ steplog = << >> /\ snap = << >>

TagApply ==
    /\ pc = "tag_in"
    /\ sav_tag' = SavTag(blk)
    /\ pc' = "tag_out"
    /\ UNCHANGED <<abort, params, config, blk, stp, i, moves, ri, m_ratio,
                   v_ratio, zeta, box_new, variables, added, tm, vm, sweep,
                   steps, setup, status, log, steplog, snap>>

TagNext == TagApply

TagSpec == TagInit /\ [][TagNext]_vars

(***************************************************************************)
(* Properties.                                                             *)
(***************************************************************************)

(* The configuration has been read and wrapped.                            *)
Wrapped == n > 0

(* The initial overlap check has passed.                                   *)
Running ==
    pc \in {"blk_loop", "stp_loop", "atom_loop", "atom_test", "vol_test",
            "observe", "final_check", "done"}

(* The hard-sphere criterion written out for one pair: the distance to the *)
(* nearest periodic image, in units of sigma/Grid, is below one diameter.  *)
ImageDist(x, y) ==
    LET ds == {IF x - y + m * Grid < 0 THEN -(x - y + m * Grid)
               ELSE x - y + m * Grid : m \in -2 .. 2}
    IN  CHOOSE d \in ds : \A e \in ds : d <= e

Close(b, x, y) == ImageDist(x, y) * ImageDist(x, y) * b * b < Grid * Grid

NoPairOverlap(b, a) ==
    \A j \in DOMAIN a, k \in DOMAIN a : j < k => ~Close(b, a[j], a[k])

(* The last translation attempt was accepted.                              *)
TmAccepted == moves = tm[1].moves + 1

(* C1 as stated: once the configuration is wrapped, every stored position  *)
(* component lies in the half-open interval [-0.5, 0.5), that is           *)
(* -Half <= r[j] < Half on the lattice.                                    *)
C1_HalfOpen == Wrapped => \A j \in DOMAIN r : -Half <= r[j] /\ r[j] < Half

(* C1 amended: once the configuration is wrapped, and after every          *)
(* translation attempt, every stored position component lies in the closed *)
(* interval [-0.5, 0.5]; np.rint rounds a tie to the even neighbour, so    *)
(* +0.5 is kept.                                                           *)
C1_Closed == Wrapped => \A j \in DOMAIN r : -Half <= r[j] /\ r[j] <= Half

(* An accepted translation has stored the component +0.5.                  *)
C1_Witness ==
    /\ pc = "atom_loop"
    /\ tm # << >>
    /\ TmAccepted
    /\ tm[1].before[tm[1].i] # Half
    /\ r[tm[1].i] = Half

(* C2: after the initial overlap check has passed the configuration has no *)
(* overlapping pair in the current box, at every point of the run (after   *)
(* every sweep, every volume move, at every snapshot), and the final       *)
(* overlap assertion never fails.                                          *)
C2_OverlapFree ==
    /\ Running => NoPairOverlap(box, r) /\ ~overlap(box, r)
    /\ abort # "Overlap in final configuration"

(* A step of at least two atoms has accepted a translation and a shrinking *)
(* volume move.                                                            *)
C2_Witness ==
    /\ pc = "stp_loop"
    /\ n >= 2
    /\ vm # << >>
    /\ added # << >>
    /\ added[1].m_r.num > 0
    /\ added[1].v_r = 1
    /\ vm[1].box_new < vm[1].box_old

(* C3: when the proposed box makes the configuration overlap, metropolis   *)
(* is not called, box keeps its value, v_ratio is 0 and the volume ratio   *)
(* passed to blk_add is 0.                                                 *)
C3_OverlapRejects ==
    (vm # << >> /\ overlap(vm[1].box_new, r)) =>
        /\ ~vm[1].called
        /\ box = vm[1].box_old
        /\ v_ratio = <<0>>
        /\ (added # << >> => added[1].v_r = 0)

(* blk_add has received the ratio 0 for an overlapping proposal whose      *)
(* delta would not have been positive.                                     *)
C3_Witness ==
    /\ vm # << >>
    /\ added # << >>
    /\ overlap(vm[1].box_new, r)
    /\ ~DeltaPositive(Delta(pressure, n, vm[1].box_old, vm[1].box_new,
                            vm[1].zeta))
    /\ added[1].v_r = 0

(* C4: a translation attempt made from a configuration without overlapping *)
(* pair and accepted leaves a configuration without overlapping pair.      *)
C4_AcceptedStaysFree ==
    (tm # << >> /\ NoPairOverlap(box, tm[1].before) /\ TmAccepted) =>
        NoPairOverlap(box, r)

(* An accepted translation has moved an atom while another atom is there.  *)
C4_Witness ==
    /\ tm # << >>
    /\ n >= 2
    /\ TmAccepted
    /\ NoPairOverlap(box, tm[1].before)
    /\ r[tm[1].i] # tm[1].before[tm[1].i]

(* C5: a translation attempt is accepted exactly when the trial position   *)
(* overlaps none of the other atoms (its own row excluded); accepted, it   *)
(* stores the trial position and adds one to moves; rejected, it leaves r  *)
(* and moves alone; moves starts at 0 in each step, so the move ratio of   *)
(* the step is (accepted attempts)/n, within [0, 1].                       *)
C5_AcceptIffFree ==
    /\ tm # << >> =>
          LET t == tm[1]
              others == [j \in 0 .. (n - 2) |->
                            t.before[IF j < t.i THEN j ELSE j + 1]]
              free == ~overlap_1(t.ri, box, others)
          IN  /\ free => r = [t.before EXCEPT ![t.i] = t.ri]
                         /\ moves = t.moves + 1
              /\ ~free => r = t.before /\ moves = t.moves
    /\ sweep # << >> =>
          /\ pc \in {"atom_loop", "atom_test"} =>
                 moves = Cardinality(DOMAIN sweep[1].new)
          /\ pc = "vol_test" =>
                 /\ m_ratio = <<[num |-> Cardinality(DOMAIN sweep[1].new),
                                 den |-> n]>>
                 /\ 0 <= m_ratio[1].num
                 /\ m_ratio[1].num <= m_ratio[1].den
    /\ added # << >> =>
          /\ added[1].m_r.den = n
          /\ 0 <= added[1].m_r.num /\ added[1].m_r.num <= n

(* A step of two atoms has accepted one attempt and rejected the other.    *)
C5_Witness ==
    /\ pc = "vol_test"
    /\ n = 2
    /\ m_ratio = <<[num |-> 1, den |-> 2]>>
    /\ sweep # << >>
    /\ DOMAIN sweep[1].new = {1}

(* C6: within a sweep the atoms are taken in increasing index order, and   *)
(* the overlap test of atom i reads, for every j < i accepted earlier in   *)
(* the sweep, the trial position of j, and for every other j # i the       *)
(* position of j at the start of the sweep.                                *)
C6_SeesPartialUpdate ==
    /\ (sweep # << >> /\ pc \in {"atom_loop", "atom_test"}) =>
           DOMAIN sweep[1].new \subseteq 0 .. (i - 1)
    /\ (sweep # << >> /\ tm # << >>) =>
           LET t == tm[1]
               sw == sweep[1]
               seen(j) == t.rj[IF j < t.i THEN j ELSE j - 1]
           IN  /\ t.i = i - 1
               /\ DOMAIN t.rj = 0 .. (n - 2)
               /\ \A j \in (0 .. (n - 1)) \ {t.i} :
                     seen(j) = IF j < t.i /\ j \in DOMAIN sw.new
                               THEN sw.new[j] ELSE sw.r0[j]

(* Atom 1 has been accepted at a place that overlaps the position atom 0   *)
(* had at the start of the sweep and has left earlier in the sweep.        *)
C6_Witness ==
    /\ sweep # << >>
    /\ tm # << >>
    /\ tm[1].i = 1
    /\ TmAccepted
    /\ 0 \in DOMAIN sweep[1].new
    /\ tm[1].rj[0] = sweep[1].new[0]
    /\ Close(box, tm[1].ri, sweep[1].r0[0])
    /\ ~Close(box, tm[1].ri, sweep[1].new[0])

(* log2 of a power of two.                                                 *)
Log2(x) == CHOOSE k \in 0 .. (3 * MaxBoxLog + 3) : Pow(2, k) = x

(* P*(V' - V) + (N+1)*ln(V/V'), V the volume before the move.              *)
ExpectedDelta(v) ==
    [pv |-> pressure * (Pow(v.box_new, 3) - Pow(v.box_old, 3)),
     lg |-> (n + 1) * (Log2(Pow(v.box_old, 3)) - Log2(Pow(v.box_new, 3)))]

(* C7: box becomes box_new and the volume ratio of the step is 1 exactly   *)
(* when the proposal has no overlap and metropolis accepts; otherwise box  *)
(* is unchanged and the ratio is 0.  metropolis is reached exactly by the  *)
(* proposals without overlap, a proposal without overlap and delta <= 0 is *)
(* accepted, and box changes only in a step whose ratio is 1.              *)
C7_VolumeDecision ==
    vm # << >> =>
        LET v == vm[1]
            feas == NoPairOverlap(v.box_new, r)
            accepted == feas /\ v.called /\ v.result
        IN  /\ accepted => box = v.box_new /\ v_ratio = <<1>>
            /\ ~accepted => box = v.box_old /\ v_ratio = <<0>>
            /\ v.called <=> feas
            /\ (feas /\ ~DeltaPositive(ExpectedDelta(v))) => accepted
            /\ box # v.box_old => v_ratio = <<1>>
            /\ added # << >> => <<added[1].v_r>> = v_ratio

(* A proposal without overlap and delta > 0 has been turned down by        *)
(* metropolis and blk_add has received the ratio 0.                        *)
C7_Witness ==
    /\ vm # << >>
    /\ added # << >>
    /\ n >= 2
    /\ vm[1].called
    /\ ~vm[1].result
    /\ DeltaPositive(ExpectedDelta(vm[1]))
    /\ box = vm[1].box_old
    /\ added[1].v_r = 0

(* C8: the delta given to metropolis is                                    *)
(* pressure*(box_new^3 - box^3) + (n+1)*ln(box^3/box_new^3), box being the *)
(* box before the volume move of the step.                                 *)
C8_DeltaFormula ==
    (vm # << >> /\ vm[1].called) =>
        /\ vm[1].delta = ExpectedDelta(vm[1])
        /\ vm[1].box_new = BoxNew(vm[1].box_old, vm[1].zeta)

(* metropolis has been called for a proposal that changes the box, under a *)
(* positive pressure.                                                      *)
C8_Witness ==
    /\ vm # << >>
    /\ vm[1].called
    /\ vm[1].box_new # vm[1].box_old
    /\ pressure > 0
    /\ n >= 2

(* C9: every set of observables that calculate returns (initial report,    *)
(* argument of blk_add, final report) has density n/box^3 for the box in   *)
(* force; the one given to blk_add uses the box after the volume decision  *)
(* of the step: box_new if accepted, the old box if not.                   *)
C9_Density ==
    /\ variables # << >> =>
           variables[1].density = [num |-> n, den |-> Pow(box, 3)]
    /\ (added # << >> /\ vm # << >>) =>
           added[1].density =
               [num |-> n,
                den |-> IF added[1].v_r = 1 THEN Pow(vm[1].box_new, 3)
                        ELSE Pow(vm[1].box_old, 3)]

(* blk_add has received the density of a box changed in this step.         *)
C9_Witness ==
    /\ added # << >>
    /\ vm # << >>
    /\ added[1].v_r = 1
    /\ vm[1].box_new # vm[1].box_old
    /\ added[1].density = [num |-> n, den |-> Pow(vm[1].box_new, 3)]

Max0(x) == IF x > 0 THEN x ELSE 0

Terminal == pc \in {"done", "aborted", "exited"}

(* The number of actions the run still has to take, at most.               *)
StepCost == 2 * MaxN + 4
BlockCost(ns) == Max0(ns) * StepCost + 2
Rank ==
    LET blocks == (Max0(nblock) - blk) * BlockCost(nstep)
        stepsLeft == (Max0(nstep) - stp) * StepCost
        top == (MaxCount + DefaultNblock) * BlockCost(MaxCount)
    IN  CASE pc = "start" -> 7 + top
          [] pc = "typecheck" -> 6 + top
          [] pc = "read_cnf" -> 5 + top
          [] pc = "check_init" -> 4 + top
          [] pc = "blk_loop" -> 2 + blocks
          [] pc = "stp_loop" -> 3 + blocks + stepsLeft
          [] pc = "atom_loop" -> 3 + blocks + stepsLeft + 2 * (n - i) + 3
          [] pc = "atom_test" -> 3 + blocks + stepsLeft + 2 * (n - i) + 2
          [] pc = "vol_test" -> 3 + blocks + stepsLeft + 2
          [] pc = "observe" -> 3 + blocks + stepsLeft + 1
          [] pc = "final_check" -> 1
          [] OTHER -> 0

(* C10 as stated: a run that reaches DONE has executed exactly             *)
(* nblock * nstep steps.                                                   *)
C10_Exact == pc = "done" => steps = nblock * nstep

C10_State ==
    /\ pc = "done" => steps = Max0(nblock) * Max0(nstep)
    /\ steps <= Max0(nblock) * Max0(nstep)
    /\ pc = "aborted" =>
           /\ abort \in {"Overlap in initial configuration", "AttributeError"}
                         \cup {k \o " has the wrong type" : k \in Recognized}
           /\ steps = 0
    /\ pc = "exited" => steps = 0

(* C10 amended: for integer nblock and nstep and an initial configuration  *)
(* without overlap the run ends in DONE after exactly                      *)
(* max(nblock, 0) * max(nstep, 0) steps: a state that is not DONE or a     *)
(* fatal abort has a next action, every action brings the end nearer, and  *)
(* the only aborts are those of the parameter check and of the initial     *)
(* overlap check, before any step.                                         *)
C10_Clamped ==
    /\ [](~Terminal => ENABLED Next)
    /\ [][Rank' < Rank /\ Rank' >= 0 /\ C10_State']_vars

(* A run of several blocks of several steps has reached DONE.              *)
C10_Witness ==
    /\ pc = "done"
    /\ nblock >= 2
    /\ nstep >= 2
    /\ steps = nblock * nstep

(* C11 as stated: every fatal condition ends the process with a printed    *)
(* message and an exit status that is not the status 0 of a successful     *)
(* exit.                                                                   *)
C11_FatalNonzero ==
    pc \in {"exited", "aborted"} =>
        abort # None /\ status # << >> /\ status[1] # 0

(* C12: when standard input is not parsable JSON the process prints the    *)
(* message and exits at once: nml is not bound, no configuration is read,  *)
(* no oracle is bound, no call is made, no step is executed and no file    *)
(* is written; and only that input ends the process this way.              *)
C12_InvalidJsonExits ==
    (abort = "Exiting on Invalid JSON format" \/ pc = "exited") =>
        /\ abort = "Exiting on Invalid JSON format"
        /\ pc = "exited"
        /\ nml = << >>
        /\ n = 0 /\ r = << >>
        /\ oracle = << >>
        /\ log = << >> /\ steplog = << >>
        /\ blk = 0 /\ stp = 0 /\ steps = 0
        /\ snap = << >>

(* The process has exited on a document that is not JSON.                  *)
C12_Witness ==
    pc = "exited" /\ abort = "Exiting on Invalid JSON format" /\ n = 0

(* The supplied recognized keys whose value has not the type of the        *)
(* default, by their place in the document.                                *)
WrongTyped ==
    {k \in 1 .. Len(nml[1].items) :
        /\ nml[1].items[k].key \in Recognized
        /\ nml[1].items[k].type # DefaultType(nml[1].items[k].key)}

Checked == nml # << >> /\ nml[1].kind = "object" /\ pc # "typecheck"

NothingBuilt ==
    /\ n = 0 /\ r = << >>
    /\ oracle = << >>
    /\ log = << >> /\ snap = << >>
    /\ blk = 0 /\ steps = 0

(* C13 as stated: for every recognized key supplied with a value of the    *)
(* wrong type, the run aborts with a message naming that key.              *)
C13_EveryKeyNamed ==
    Checked =>
        \A k \in WrongTyped :
            /\ pc = "aborted"
            /\ abort = nml[1].items[k].key \o " has the wrong type"

(* C13 amended: if some recognized key is supplied with a value of the     *)
(* wrong type, the run aborts with a message naming the first such key in  *)
(* document order, before the configuration is read, before any step and   *)
(* before any file is written; and the run gets past the parameter check   *)
(* only if every supplied recognized key has exactly its default's type.   *)
C13_FirstKeyNamed ==
    Checked =>
        IF WrongTyped # {}
        THEN /\ pc = "aborted"
             /\ \E k \in WrongTyped :
                   /\ \A o \in WrongTyped : k <= o
                   /\ abort = nml[1].items[k].key \o " has the wrong type"
             /\ status = <<1>>
             /\ NothingBuilt
        ELSE /\ abort \notin {k \o " has the wrong type" : k \in Recognized}
             /\ oracle # << >>

(* The run has aborted on a document with two keys of the wrong type,      *)
(* nstep before nblock.                                                    *)
C13_Witness ==
    /\ pc = "aborted"
    /\ Checked
    /\ Cardinality(WrongTyped) = 2
    /\ abort = "nstep has the wrong type"

InitialAbort == pc = "aborted" /\ abort = "Overlap in initial configuration"

Ops(calls) == {calls[k].op : k \in 1 .. Len(calls)}

(* C14: if overlap(box, r) is true of the initial wrapped configuration    *)
(* the run aborts there: run_begin is never called, no block and no step   *)
(* is started, no file is written, and box and the positions are those     *)
(* that the check read.                                                    *)
C14_InitialOverlapAborts ==
    /\ [](InitialAbort =>
            /\ overlap(box, r)
            /\ status = <<1>>
            /\ Ops(log) = {"overlap"}
            /\ blk = 0 /\ stp = 0 /\ steps = 0
            /\ steplog = << >>
            /\ snap = << >>
            /\ variables = << >>)
    /\ [](pc = "check_init" /\ overlap(box, r) => ENABLED InitCheck)
    /\ [][(pc = "check_init" /\ overlap(box, r)) =>
              InitialAbort' /\ config' = config]_vars

(* The run has aborted on two atoms closer than one diameter.              *)
C14_Witness == InitialAbort /\ n = 2 /\ overlap(box, r) /\ Len(log) = 1

(* C16: the tag of the snapshot of block b is b written with three digits, *)
(* zero-padded, when b < 1000, and 'sav' when b >= 1000; two different     *)
(* blocks have the same tag only if both are 1000 or later; no tag is      *)
(* 'inp' or 'out'.                                                         *)
C16_SnapshotTag ==
    pc = "tag_out" =>
        /\ sav_tag = IF blk < 1000
                     THEN <<Digit(blk \div 100), Digit((blk \div 10) % 10),
                            Digit(blk % 10)>>
                     ELSE <<"s", "a", "v">>
        /\ sav_tag \notin {InpTag, OutTag}
        /\ \A b \in 1 .. MaxTagBlock :
              b # blk => (SavTag(b) = sav_tag <=> (b >= 1000 /\ blk >= 1000))

(* The tag of block 42 has been computed and is padded.                    *)
C16_Witness == pc = "tag_out" /\ blk = 42 /\ sav_tag = <<"0", "4", "2">>

(* The translation attempts of atoms 0 .. k-1, in this order.              *)
Moves(k) == [j \in 1 .. k |-> Event("move", j - 1, << >>)]

BlkAdds(calls) == Len(SelectSeq(calls, LAMBDA e : e.op = "blk_add"))

(* C17: the operations of the current step are, in this order, the         *)
(* translation attempts of atoms 0 .. n-1, one volume proposal and its     *)
(* decision, one calculate and one blk_add, which receives the result of   *)
(* that calculate; each completed step has made one blk_add call.          *)
C17_StepOrder ==
    /\ pc \in {"atom_loop", "atom_test"} => i <= n /\ steplog = Moves(i)
    /\ pc = "atom_test" => i < n
    /\ pc = "vol_test" => steplog = Moves(n) \o <<Call("volume_propose")>>
    /\ pc = "observe" =>
           steplog = Moves(n)
                     \o <<Call("volume_propose"), Call("volume_decide")>>
    /\ (pc = "stp_loop" /\ stp > 0) =>
           /\ steplog = Moves(n)
                        \o <<Call("volume_propose"), Call("volume_decide"),
                             Call("calculate"), Call("blk_add")>>
           /\ vm # << >>
           /\ added = variables /\ added # << >>
    /\ (pc = "stp_loop" /\ stp = 0) => steplog = << >>
    /\ pc \notin {"stp_loop", "atom_loop", "atom_test", "vol_test", "observe"}
           => steplog = << >>
    /\ BlkAdds(log) = steps

(* A step of two atoms is complete, with one translation rejected.         *)
C17_Witness ==
    /\ pc = "stp_loop" /\ stp > 0
    /\ n = 2
    /\ moves = 1
    /\ Len(steplog) = 6

(* The calls to the statistics module and the snapshot writes, in order.   *)
StatsLog ==
    SelectSeq(log, LAMBDA e :
        \/ e.op \in {"run_begin", "blk_begin", "blk_add", "blk_end", "run_end"}
        \/ e.op = "write_cnf_atoms" /\ e.name # CnfPrefix \o OutTag)

(* The protocol of block b with ns steps, of blocks b .. nb, of a run.     *)
Block(b, ns) ==
    <<Call("blk_begin")>>
    \o [j \in 1 .. ns |-> Call("blk_add")]
    \o <<Event("blk_end", b, << >>), WriteCnf(SavTag(b))>>

RECURSIVE BlocksFrom(_, _, _)
BlocksFrom(b, nb, ns) ==
    IF b > nb THEN << >> ELSE Block(b, ns) \o BlocksFrom(b + 1, nb, ns)

Protocol(nb, ns) ==
    <<Call("run_begin")>> \o BlocksFrom(1, nb, ns) \o <<Call("run_end")>>

IsPrefix(s, t) == Len(s) <= Len(t) /\ s = SubSeq(t, 1, Len(s))

(* C18 as stated, for the number of blk_add calls: when block b has ended, *)
(* each of the b blocks has made exactly nstep blk_add calls.              *)
C18_ExactNstep == (pc = "blk_loop" /\ blk > 0) => BlkAdds(log) = blk * nstep

(* C18 amended: the calls follow the protocol run_begin, then for          *)
(* b = 1 .. nblock: blk_begin, max(nstep, 0) blk_add calls, blk_end(b),    *)
(* the write of the snapshot of block b, then run_end; when block b has    *)
(* ended the calls made are exactly those up to its snapshot, and the      *)
(* snapshot holds the configuration as it stands; the protocol is complete *)
(* once run_end is called.                                                 *)
C18_Protocol ==
    /\ IsPrefix(StatsLog, Protocol(nblock, nstep))
    /\ (pc = "blk_loop" /\ blk > 0) =>
           /\ StatsLog = <<Call("run_begin")>> \o BlocksFrom(1, blk, nstep)
           /\ blk <= nblock
           /\ snap = <<Snapshot(SavTag(blk), n, box, r)>>
           /\ sav_tag = SavTag(blk)
    /\ pc \in {"final_check", "done"} => StatsLog = Protocol(nblock, nstep)
    /\ pc \in {"stp_loop", "atom_loop", "atom_test", "vol_test", "observe"} =>
           /\ blk >= 1
           /\ StatsLog = <<Call("run_begin")>> \o BlocksFrom(1, blk - 1, nstep)
                         \o <<Call("blk_begin")>>
                         \o [j \in 1 .. BlkAdds(log) - (blk - 1) * Max0(nstep)
                                |-> Call("blk_add")]

(* A run of two blocks of two steps has made all its calls.                *)
C18_Witness ==
    /\ pc = "done"
    /\ nblock = 2 /\ nstep = 2
    /\ Len(StatsLog) = 12

Last(calls, k) == SubSeq(calls, Len(calls) - k + 1, Len(calls))

OutWritten == \E k \in 1 .. Len(log) : log[k] = WriteCnf(OutTag)

(* C19: the finalization calls run_end, computes the final observables     *)
(* with both move ratios reported as zero, checks the final configuration  *)
(* for overlap and then writes it: the output file is written only in a    *)
(* run whose final check has passed, and a run that fails the check has    *)
(* called run_end, written its snapshots and not written the output file.  *)
C19_FinalOrder ==
    /\ pc = "final_check" =>
           /\ Len(log) >= 2 /\ Last(log, 2) = <<Call("run_end"), Call("calculate")>>
           /\ variables = <<[m_r |-> [num |-> 0, den |-> 1], v_r |-> 0,
                             density |-> [num |-> n, den |-> box * box * box]]>>
    /\ pc = "done" =>
           /\ Len(log) >= 5
           /\ Last(log, 5) = <<Call("run_end"), Call("calculate"),
                               Call("overlap"), WriteCnf(OutTag),
                               Call("conclusion")>>
           /\ ~overlap(box, r)
           /\ snap = <<Snapshot(OutTag, n, box, r)>>
           /\ status = <<0>>
    /\ OutWritten => pc = "done"
    /\ (pc = "aborted" /\ abort = "Overlap in final configuration") =>
           /\ ~OutWritten
           /\ Call("run_end") \in {log[k] : k \in 1 .. Len(log)}
           /\ Len(StatsLog) = Len(Protocol(nblock, nstep))

(* A run with a block has written its final configuration.                 *)
C19_Witness ==
    /\ pc = "done"
    /\ OutWritten
    /\ nblock >= 1
    /\ snap # << >> /\ snap[1].name = <<"c", "n", "f", ".", "o", "u", "t">>

(* C20 as stated: with a uniform source in [0, 1), zeta is strictly        *)
(* between -1 and +1 and box_scale strictly between exp(-db_max) and       *)
(* exp(+db_max).  zeta holds the numerator over ZetaSteps, box_scale is    *)
(* compared by its logarithm in units of ln(2).                            *)
C20_OpenInterval ==
    zeta # << >> =>
        /\ -ZetaSteps < zeta[1] /\ zeta[1] < ZetaSteps
        /\ -DbMaxLog < BoxScaleLog(zeta[1]) /\ BoxScaleLog(zeta[1]) < DbMaxLog

====
